---- MODULE Spec2Model ----
(***************************************************************************)
(* Model of ObjDetection/LIDARSpawnAndObjDetectionSave.py: the semantic    *)
(* LiDAR callback (raw log + nearest-object summary log), the batch        *)
(* vehicle spawner and the lifecycle of main (setup, tick loop, teardown). *)
(*                                                                         *)
(* Distances: the code computes math.sqrt(x^2+y^2+z^2) as a float.  Here   *)
(* coordinates are small naturals and a distance is floor(1000*sqrt(..)),  *)
(* which orders the model's points exactly as the float does; the "%.2f"   *)
(* formatting rounds that value to hundredths.                             *)
(***************************************************************************)
EXTENDS Integers, Sequences, FiniteSets, TLC

VARIABLES
    pc,                  \* position of the main thread in main()
    pending,             \* exception that propagates out of main after finally
    heroBps,             \* blueprint_library.filter('model3') is non-empty
    vehBps,              \* blueprint_library.filter('vehicle.*') is non-empty
    nPts,                \* number of spawn points of the map
    number,              \* parameter `number` of spawn_vehicles_batch
    spawn_points,        \* local of spawn_vehicles_batch (after the shuffle)
    batch,               \* local of spawn_vehicles_batch
    responses,           \* local of spawn_vehicles_batch
    warnings,            \* responses logged with logging.warning
    vehicle_ids,         \* value returned by spawn_vehicles_batch
    actor_list,          \* module-level list actor_list
    spawned_vehicle_ids, \* module-level list spawned_vehicle_ids
    hero_vehicle,        \* local of main (0 = unbound)
    lidar,               \* local of main (0 = unbound)
    nextId,              \* simulator: next actor id it hands out
    created,             \* simulator: ids of the actors this process created
    destroyLog,          \* simulator: the destroy requests it received
    idx,                 \* position of the for-loop over actor_list
    listening,           \* lidar.listen(...) has registered the callback
    sensorFrame,         \* sensor: the points measured for the next frame
    now,                 \* wall clock read by datetime.now()
    cb,                  \* the invocations of semantic_lidar_data
    rawLog,              \* data rows of RAW_LIDAR_CSV
    sumLog,              \* data rows of DETECTION_LOG_CSV
    shutdownRuns,        \* how many times the teardown has been started
    firstLen             \* Len(destroyLog) when the first teardown ended

vars == <<pc, pending, heroBps, vehBps, nPts, number,
          spawn_points, batch, responses, warnings, vehicle_ids, actor_list,
          spawned_vehicle_ids, hero_vehicle, lidar, nextId, created,
          destroyLog, idx, listening, sensorFrame, now, cb, rawLog, sumLog,
          shutdownRuns, firstLen>>

mainVars == <<pc, pending, heroBps, vehBps, nPts, number,
              spawn_points, batch, responses, warnings, vehicle_ids,
              actor_list, spawned_vehicle_ids, hero_vehicle, lidar, nextId,
              created, destroyLog, idx, listening, shutdownRuns, firstLen>>

cbVars == <<sensorFrame, now, cb, rawLog, sumLog>>

(***************************************************************************)
(* Bounds of the model.                                                    *)
(***************************************************************************)
\* invocations of the callback in one run (they may overlap)
MaxFrames == 2
\* points of a frame in the single-callback specification
MaxPointsAgg == 10
\* points of a frame that repeat a class seen earlier in the frame
MaxRepeats == 1
\* rows the file buffer holds before it is flushed to the raw log
BufRows == 1
\* readings of the wall clock
MaxTime == 1
\* spawn points of the map
MaxSpawnPts == 3
\* values of the parameter `number` tried on spawn_vehicles_batch alone
MaxNumber == 5

(***************************************************************************)
(* Program constants.                                                      *)
(***************************************************************************)
NUM_VEHICLES == 30
\* the slice [:8] of the sorted items
TopK == 8

Min2(a, b) == IF a <= b THEN a ELSE b

(***************************************************************************)
(* Taxonomy: object_id, key_list, value_list.                              *)
(***************************************************************************)
key_list == <<"None", "Buildings", "Fences", "Other", "Pedestrians", "Poles",
              "RoadLines", "Roads", "Sidewalks", "Vegetation", "Vehicles",
              "Wall", "TrafficsSigns", "Sky", "Ground", "Bridge", "RailTrack",
              "GuardRail", "TrafficLight", "Static", "Dynamic", "Water",
              "Terrain">>

value_list == [i \in 1..23 |-> i - 1]

\* value_list.index(tag): the first position holding tag, 0 for ValueError
ValueIndex(tag) ==
    IF \E i \in 1..Len(value_list) : value_list[i] = tag
    THEN CHOOSE i \in 1..Len(value_list) :
            /\ value_list[i] = tag
            /\ \A j \in 1..(i - 1) : value_list[j] # tag
    ELSE 0

UnknownName(tag) == "Unknown(" \o ToString(tag) \o ")"

\* the buggy variant: every unregistered tag shares one name
ClassNameNoTag(tag) ==
    IF ValueIndex(tag) # 0 THEN key_list[ValueIndex(tag)] ELSE "Unknown"

\* name = key_list[value_list.index(tag)], or Unknown(<tag>) on ValueError
ClassName(tag) ==
    IF ValueIndex(tag) # 0 THEN key_list[ValueIndex(tag)] ELSE UnknownName(tag)

(***************************************************************************)
(* Distance and its formatting.                                            *)
(***************************************************************************)
RECURSIVE ISqrtIn(_, _, _)
\* the largest r in lo..hi with r*r <= n (bisection)
ISqrtIn(n, lo, hi) ==
    IF lo >= hi THEN lo
    ELSE LET mid == (lo + hi + 1) \div 2
         IN  IF mid * mid <= n THEN ISqrtIn(n, mid, hi)
                               ELSE ISqrtIn(n, lo, mid - 1)

ISqrt(n) == ISqrtIn(n, 0, 6000)

\* the coordinates of the model's points are at most MaxCoord
MaxCoord == 2

\* floor(1000 * sqrt(n)) for every sum of three squares the points can give
SqrtMilli == [n \in 0..(3 * MaxCoord * MaxCoord) |-> ISqrt(1000000 * n)]

\* math.sqrt(x ** 2 + y ** 2 + z ** 2), in thousandths (rounded down)
Distance(p) == SqrtMilli[p.x * p.x + p.y * p.y + p.z * p.z]

\* f"{d:.2f}": the distance rounded to hundredths
Fmt2(d) == (d + 5) \div 10

(***************************************************************************)
(* The sensor: what a frame can hold.  The callback compares class names   *)
(* for equality only and keeps one minimum per class, so a frame is taken  *)
(* as its classes in one fixed order of first appearance (tag 23 is the    *)
(* first unregistered tag, 99 another), followed by further points of the  *)
(* classes already present.                                                *)
(***************************************************************************)
TagOrder == <<7, 23, 10, 4, 1, 99, 5, 8, 9, 22, 0, 12>>

Coords == { <<1, 1, 0>>, <<2, 1, 0>> }

\* the frames delivered where the summary is not the subject: no point, one
\* point, two points of two classes, three points with a class seen twice
ScanFrames ==
    { <<>>,
      << [x |-> 1, y |-> 1, z |-> 0, object_tag |-> 7] >>,
      << [x |-> 2, y |-> 1, z |-> 0, object_tag |-> 23],
         [x |-> 1, y |-> 1, z |-> 0, object_tag |-> 7] >>,
      << [x |-> 2, y |-> 1, z |-> 0, object_tag |-> 10],
         [x |-> 1, y |-> 2, z |-> 2, object_tag |-> 7],
         [x |-> 1, y |-> 1, z |-> 0, object_tag |-> 10] >> }

Point(c, tag) == [x |-> c[1], y |-> c[2], z |-> c[3], object_tag |-> tag]

TagsOf(frame) == { frame[i].object_tag : i \in 1..Len(frame) }

\* one more point is measured for the frame under construction
SensorDetect(maxPts, maxRep) ==
    /\ Len(sensorFrame) < maxPts
    /\ cb[1].pc = "idle"
    /\ LET m == Cardinality(TagsOf(sensorFrame))
       IN  \E j \in 1..Min2(m + 1, Len(TagOrder)), c \in Coords :
              /\ j <= m => Len(sensorFrame) - m < maxRep
              /\ j > m => Len(sensorFrame) = m
              /\ sensorFrame' = Append(sensorFrame, Point(c, TagOrder[j]))
    /\ UNCHANGED <<now, cb, rawLog, sumLog>>
    /\ UNCHANGED mainVars

\* the wall clock moves on
ClockAdvance ==
    /\ now < MaxTime
    /\ now' = now + 1
    /\ UNCHANGED <<sensorFrame, cb, rawLog, sumLog>>
    /\ UNCHANGED mainVars

(***************************************************************************)
(* semantic_lidar_data(point_cloud_data)                                   *)
(***************************************************************************)
\* raw_points: one row [timestamp, x, y, z, tag] per detection, in order.
\* frame_no is not a column of the file: it names the invocation that wrote
\* the row.
RawPoints(inv, timestamp, frame) ==
    [i \in 1..Len(frame) |->
        [frame_no |-> inv, timestamp |-> timestamp, x |-> frame[i].x,
         y |-> frame[i].y, z |-> frame[i].z, object_tag |-> frame[i].object_tag]]

\* position of name among the keys of the dict, 0 when absent
KeyPos(nearest, name) ==
    IF \E i \in 1..Len(nearest) : nearest[i].name = name
    THEN CHOOSE i \in 1..Len(nearest) : nearest[i].name = name
    ELSE 0

\* the buggy variant: the last distance seen wins
NearestPutLast(nearest, name, distance) ==
    LET k == KeyPos(nearest, name)
    IN  IF k = 0 THEN Append(nearest, [name |-> name, d |-> distance])
        ELSE [nearest EXCEPT ![k].d = distance]

\* if name not in nearest or distance < nearest[name]: nearest[name] = distance
\* (a dict keeps its keys in insertion order; an update keeps the position)
NearestPut(nearest, name, distance) ==
    LET k == KeyPos(nearest, name)
    IN  IF k = 0 THEN Append(nearest, [name |-> name, d |-> distance])
        ELSE IF distance < nearest[k].d THEN [nearest EXCEPT ![k].d = distance]
        ELSE nearest

RECURSIVE NearestFrom(_, _, _)
\* the loop over point_cloud_data that fills the dict nearest
NearestFrom(frame, i, nearest) ==
    IF i > Len(frame) THEN nearest
    ELSE NearestFrom(frame, i + 1,
            NearestPut(nearest, ClassName(frame[i].object_tag), Distance(frame[i])))

Nearest(frame) == NearestFrom(frame, 1, <<>>)

\* the buggy variant: item placed before the items of equal distance
InsertBefore(sorted, item) ==
    LET k == Cardinality({ i \in 1..Len(sorted) : sorted[i].d < item.d })
    IN  SubSeq(sorted, 1, k) \o <<item>> \o SubSeq(sorted, k + 1, Len(sorted))

\* item placed after every item whose distance is <= its own (stable)
InsertSorted(sorted, item) ==
    LET k == Cardinality({ i \in 1..Len(sorted) : sorted[i].d <= item.d })
    IN  SubSeq(sorted, 1, k) \o <<item>> \o SubSeq(sorted, k + 1, Len(sorted))

RECURSIVE SortedFrom(_, _, _)
SortedFrom(items, i, sorted) ==
    IF i > Len(items) THEN sorted
    ELSE SortedFrom(items, i + 1, InsertSorted(sorted, items[i]))

\* sorted(nearest.items(), key=lambda x: x[1])
SortedItems(items) == SortedFrom(items, 1, <<>>)

\* the buggy variant: the items are sliced in insertion order, never sorted
TopItemsNoSort(nearest) ==
    SubSeq(nearest, 1, Min2(TopK, Len(nearest)))

\* sorted(...)[:8]
TopItems(nearest) ==
    SubSeq(SortedItems(nearest), 1, Min2(TopK, Len(nearest)))

\* ", ".join([f"{n}:{d:.2f}" for n, d in items]); "" is the empty sequence
DetectionsSummary(nearest) ==
    IF nearest = <<>> THEN <<>>
    ELSE LET items == TopItems(nearest)
         IN  [i \in 1..Len(items) |->
                 [name |-> items[i].name, d |-> Fmt2(items[i].d)]]

\* the buggy variant: no row for a frame without detections
SummaryRowsSkipEmpty(inv, timestamp, summary) ==
    IF summary = <<>> THEN <<>>
    ELSE << [frame_no |-> inv, timestamp |-> timestamp,
             detections_summary |-> summary] >>

\* writer.writerow([timestamp, detections_summary])
SummaryRows(inv, timestamp, summary) ==
    << [frame_no |-> inv, timestamp |-> timestamp,
        detections_summary |-> summary] >>

IdleCb == [pc |-> "idle", frame |-> <<>>, timestamp |-> 0, raw_points |-> <<>>]

\* the sensor delivers frames from listen() until the lidar is destroyed
SensorLive ==
    /\ listening
    /\ pc # "exited"
    /\ ~\E k \in 1..Len(destroyLog) :
          destroyLog[k].kind = "actor" /\ destroyLog[k].ids = <<lidar>>
                                       /\ destroyLog[k].ok

\* the threads of the process run until main has returned
ProcessAlive == pc # "exited"

\* lines 101-113: the timestamp is read and raw_points is built
CbStart(i, frame) ==
    /\ SensorLive
    /\ cb[i].pc = "idle"
    /\ \A j \in 1..(i - 1) : cb[j].pc # "idle"
    /\ cb' = [cb EXCEPT ![i] =
                [pc |-> "raw", frame |-> frame, timestamp |-> now,
                 raw_points |-> RawPoints(i, now, frame)]]
    /\ UNCHANGED <<sensorFrame, now, rawLog, sumLog>>
    /\ UNCHANGED mainVars

\* the buggy variant: the file is opened in mode 'w', which truncates it
CbWriteRawTruncate(i, bufRows) ==
    /\ ProcessAlive
    /\ cb[i].pc = "raw"
    /\ LET rows == cb[i].raw_points
           n == Min2(bufRows, Len(rows))
           rest == SubSeq(rows, n + 1, Len(rows))
           kept == IF Len(rows) = Len(cb[i].frame) THEN <<>> ELSE rawLog
       IN  /\ rawLog' = kept \o SubSeq(rows, 1, n)
           /\ cb' = [cb EXCEPT ![i].raw_points = rest,
                               ![i].pc = IF rest = <<>> THEN "summary" ELSE "raw"]
    /\ UNCHANGED <<sensorFrame, now, sumLog>>
    /\ UNCHANGED mainVars

\* lines 116-118: the rows go to the file opened in append mode, one buffer
\* at a time; the file is closed with the last of them
CbWriteRaw(i, bufRows) ==
    /\ ProcessAlive
    /\ cb[i].pc = "raw"
    /\ LET rows == cb[i].raw_points
           n == Min2(bufRows, Len(rows))
           rest == SubSeq(rows, n + 1, Len(rows))
       IN  /\ rawLog' = rawLog \o SubSeq(rows, 1, n)
           /\ cb' = [cb EXCEPT ![i].raw_points = rest,
                               ![i].pc = IF rest = <<>> THEN "summary" ELSE "raw"]
    /\ UNCHANGED <<sensorFrame, now, sumLog>>
    /\ UNCHANGED mainVars

\* the buggy variant: the clock is read again for the summary row
CbSummaryFreshClock(i) ==
    /\ ProcessAlive
    /\ cb[i].pc = "summary"
    /\ sumLog' = sumLog \o SummaryRows(i, now,
                                       DetectionsSummary(Nearest(cb[i].frame)))
    /\ cb' = [cb EXCEPT ![i].pc = "done"]
    /\ UNCHANGED <<sensorFrame, now, rawLog>>
    /\ UNCHANGED mainVars

\* lines 121-145: nearest, detections_summary and the row of the summary log
CbSummary(i) ==
    /\ ProcessAlive
    /\ cb[i].pc = "summary"
    /\ sumLog' = sumLog \o SummaryRows(i, cb[i].timestamp,
                                       DetectionsSummary(Nearest(cb[i].frame)))
    /\ cb' = [cb EXCEPT ![i].pc = "done"]
    /\ UNCHANGED <<sensorFrame, now, rawLog>>
    /\ UNCHANGED mainVars

\* lines 99-145 run without another thread in between: the whole callback
semantic_lidar_data(i, frame) ==
    /\ SensorLive
    /\ cb[i].pc = "idle"
    /\ \A j \in 1..(i - 1) : cb[j].pc # "idle"
    /\ rawLog' = rawLog \o RawPoints(i, now, frame)
    /\ sumLog' = sumLog \o SummaryRows(i, now, DetectionsSummary(Nearest(frame)))
    /\ cb' = [cb EXCEPT ![i] =
                [pc |-> "done", frame |-> frame, timestamp |-> now,
                 raw_points |-> <<>>]]
    /\ UNCHANGED <<sensorFrame, now>>
    /\ UNCHANGED mainVars

(***************************************************************************)
(* The simulator: actor creation and destruction.                          *)
(***************************************************************************)
\* ids handed out to the requests of a batch: the k-th request succeeds iff
\* ~errs[k], and the successes get consecutive ids from first on
Successes(errs, k) == Cardinality({ j \in 1..k : ~errs[j] })

\* client.apply_batch_sync(batch, True): one response per command, in order
BatchResponses(n, errs, first) ==
    [k \in 1..n |->
        IF errs[k] THEN [error |-> TRUE, actor_id |-> 0]
        ELSE [error |-> FALSE, actor_id |-> first + Successes(errs, k) - 1]]

\* the actor ids a sequence of destroy requests names
RECURSIVE LogIds(_)
LogIds(log) ==
    IF log = <<>> THEN {}
    ELSE { log[1].ids[k] : k \in 1..Len(log[1].ids) } \cup LogIds(Tail(log))

\* random.shuffle(spawn_points): the orders the n spawn points can be left in
Shuffles(n) ==
    { p \in [1..n -> 1..n] : \A a, b \in 1..n : a # b => p[a] # p[b] }

(***************************************************************************)
(* spawn_vehicles_batch(client, world, filter, number)                     *)
(***************************************************************************)
\* the buggy variant: the exception is dropped and the tick loop is entered
RaiseAndContinue ==
    /\ pc' = "loop"
    /\ pending' = pending

\* an exception leaves the try body: the finally block runs, then it
\* propagates
Raise ==
    /\ pc' = "fin_batch"
    /\ pending' = "error"

\* the buggy variant: the cap counts one location too few
NSpawnShort(num, available) == Min2(num, available - 1)

\* n_spawn = min(number, len(spawn_points))
NSpawn(num, available) == Min2(num, available)

\* the for loop over enumerate(spawn_points) with its break at n >= n_spawn:
\* one SpawnActor(bp, transform).then(SetAutopilot(...)) per location kept
BatchFor(points, n_spawn) ==
    [n \in 1..Min2(n_spawn, Len(points)) |-> [transform |-> points[n]]]

\* lines 159-163: the blueprints of the filter
SvBlueprints(num) ==
    /\ pc = "sv_bps"
    /\ number' = num
    /\ IF ~vehBps
       THEN Raise
       ELSE pc' = "sv_pts" /\ UNCHANGED pending
    /\ UNCHANGED <<heroBps, vehBps, nPts, spawn_points,
                   batch, responses, warnings, vehicle_ids, actor_list,
                   spawned_vehicle_ids, hero_vehicle, lidar, nextId, created,
                   destroyLog, idx, listening, shutdownRuns, firstLen>>
    /\ UNCHANGED cbVars

\* lines 165-188: the spawn points, n_spawn, the shuffle and the batch
SvBuildBatch ==
    /\ pc = "sv_pts"
    /\ IF nPts = 0
       THEN Raise /\ UNCHANGED <<spawn_points, batch>>
       ELSE /\ \E p \in Shuffles(nPts) :
                 /\ spawn_points' = p
                 /\ batch' = BatchFor(p, NSpawn(number, nPts))
            /\ pc' = "sv_apply"
            /\ UNCHANGED pending
    /\ UNCHANGED <<heroBps, vehBps, nPts, number, responses,
                   warnings, vehicle_ids, actor_list, spawned_vehicle_ids,
                   hero_vehicle, lidar, nextId, created, destroyLog, idx,
                   listening, shutdownRuns, firstLen>>
    /\ UNCHANGED cbVars

\* line 190: the simulator answers every command with an error or an actor id
SvApply ==
    /\ pc = "sv_apply"
    /\ \E errs \in [1..Len(batch) -> BOOLEAN] :
          LET n == Successes(errs, Len(batch))
          IN  /\ responses' = BatchResponses(Len(batch), errs, nextId)
              /\ nextId' = nextId + n
              /\ created' = created \cup (nextId..(nextId + n - 1))
    /\ pc' = "sv_collect"
    /\ UNCHANGED <<pending, heroBps, vehBps, nPts, number,
                   spawn_points, batch, warnings, vehicle_ids, actor_list,
                   spawned_vehicle_ids, hero_vehicle, lidar, destroyLog, idx,
                   listening, shutdownRuns, firstLen>>
    /\ UNCHANGED cbVars

RECURSIVE SpawnedIdsAll(_)
\* the buggy variant: the id of every response is kept, failed or not
SpawnedIdsAll(resp) ==
    IF resp = <<>> THEN <<>>
    ELSE <<resp[1].actor_id>> \o SpawnedIdsAll(Tail(resp))

RECURSIVE SpawnedIdsUntilError(_)
\* the buggy variant: the first failed response ends the loop
SpawnedIdsUntilError(resp) ==
    IF resp = <<>> THEN <<>>
    ELSE IF resp[1].error THEN <<>>
    ELSE <<resp[1].actor_id>> \o SpawnedIdsUntilError(Tail(resp))

RECURSIVE SpawnedIds(_)
\* lines 191-196: the ids of the responses without error, in order
SpawnedIds(resp) ==
    IF resp = <<>> THEN <<>>
    ELSE IF resp[1].error THEN SpawnedIds(Tail(resp))
    ELSE <<resp[1].actor_id>> \o SpawnedIds(Tail(resp))

\* lines 193-194: one warning per response with an error
Warnings(resp) == Cardinality({ k \in 1..Len(resp) : resp[k].error })

\* lines 191-197 and the assignment of line 226
SvCollect ==
    /\ pc = "sv_collect"
    /\ warnings' = Warnings(responses)
    /\ vehicle_ids' = SpawnedIds(responses)
    /\ pc' = "extend"
    /\ UNCHANGED <<pending, heroBps, vehBps, nPts, number,
                   spawn_points, batch, responses, actor_list,
                   spawned_vehicle_ids, hero_vehicle, lidar, nextId, created,
                   destroyLog, idx, listening, shutdownRuns, firstLen>>
    /\ UNCHANGED cbVars

(***************************************************************************)
(* main()                                                                  *)
(***************************************************************************)
TryPcs == {"setup", "spawn_hero", "append_hero", "sv_bps", "sv_pts", "sv_apply",
           "sv_collect", "extend", "spawn_lidar", "append_lidar", "listen",
           "loop"}

\* the steps of the try body that call the simulator
FailPcs == {"setup", "spawn_hero", "sv_bps", "sv_pts", "sv_apply", "spawn_lidar",
            "listen", "loop"}

FinallyPcs == {"fin_batch", "fin_loop"}

\* line 218: spawn_point = world.get_map().get_spawn_points()[0]; a spawn
\* point is named by its position in the list the map returns
HeroSpawnPoint == 1

\* lines 206-218: world, traffic manager, hero blueprint, first spawn point
MainSetup ==
    /\ pc = "setup"
    /\ IF (~heroBps /\ ~vehBps) \/ nPts = 0
       THEN Raise
       ELSE pc' = "spawn_hero" /\ UNCHANGED pending
    /\ UNCHANGED <<heroBps, vehBps, nPts, number,
                   spawn_points, batch, responses, warnings, vehicle_ids,
                   actor_list, spawned_vehicle_ids, hero_vehicle, lidar, nextId,
                   created, destroyLog, idx, listening, shutdownRuns, firstLen>>
    /\ UNCHANGED cbVars

\* line 219: hero_vehicle = world.spawn_actor(hero_bp, spawn_point)
MainSpawnHero ==
    /\ pc = "spawn_hero"
    /\ hero_vehicle' = nextId
    /\ nextId' = nextId + 1
    /\ created' = created \cup {nextId}
    /\ pc' = "append_hero"
    /\ UNCHANGED <<pending, heroBps, vehBps, nPts, number,
                   spawn_points, batch, responses, warnings, vehicle_ids,
                   actor_list, spawned_vehicle_ids, lidar, destroyLog, idx,
                   listening, shutdownRuns, firstLen>>
    /\ UNCHANGED cbVars

\* line 220: actor_list.append(hero_vehicle); lines 221-225 follow
MainAppendHero ==
    /\ pc = "append_hero"
    /\ actor_list' = Append(actor_list, hero_vehicle)
    /\ pc' = "sv_bps"
    /\ UNCHANGED <<pending, heroBps, vehBps, nPts, number,
                   spawn_points, batch, responses, warnings, vehicle_ids,
                   spawned_vehicle_ids, hero_vehicle, lidar, nextId, created,
                   destroyLog, idx, listening, shutdownRuns, firstLen>>
    /\ UNCHANGED cbVars

\* line 227: spawned_vehicle_ids.extend(vehicle_ids); the locals of the
\* returned call are gone
MainExtend ==
    /\ pc = "extend"
    /\ spawned_vehicle_ids' = spawned_vehicle_ids \o vehicle_ids
    /\ spawn_points' = <<>> /\ batch' = <<>> /\ responses' = <<>>
    /\ pc' = "spawn_lidar"
    /\ UNCHANGED <<pending, heroBps, vehBps, nPts, number,
                   warnings, vehicle_ids, actor_list, hero_vehicle, lidar,
                   nextId, created, destroyLog, idx, listening, shutdownRuns,
                   firstLen>>
    /\ UNCHANGED cbVars

\* lines 230-232: lidar = world.spawn_actor(lidar_bp, ..., attach_to=hero)
MainSpawnLidar ==
    /\ pc = "spawn_lidar"
    /\ lidar' = nextId
    /\ nextId' = nextId + 1
    /\ created' = created \cup {nextId}
    /\ pc' = "append_lidar"
    /\ UNCHANGED <<pending, heroBps, vehBps, nPts, number,
                   spawn_points, batch, responses, warnings, vehicle_ids,
                   actor_list, spawned_vehicle_ids, hero_vehicle, destroyLog,
                   idx, listening, shutdownRuns, firstLen>>
    /\ UNCHANGED cbVars

\* line 233: actor_list.append(lidar); lines 234-237 follow
MainAppendLidar ==
    /\ pc = "append_lidar"
    /\ actor_list' = Append(actor_list, lidar)
    /\ pc' = "listen"
    /\ UNCHANGED <<pending, heroBps, vehBps, nPts, number,
                   spawn_points, batch, responses, warnings, vehicle_ids,
                   spawned_vehicle_ids, hero_vehicle, lidar, nextId, created,
                   destroyLog, idx, listening, shutdownRuns, firstLen>>
    /\ UNCHANGED cbVars

\* lines 240-244: lidar.listen(lambda data: semantic_lidar_data(data))
MainListen ==
    /\ pc = "listen"
    /\ listening' = TRUE
    /\ pc' = "loop"
    /\ UNCHANGED <<pending, heroBps, vehBps, nPts, number,
                   spawn_points, batch, responses, warnings, vehicle_ids,
                   actor_list, spawned_vehicle_ids, hero_vehicle, lidar, nextId,
                   created, destroyLog, idx, shutdownRuns, firstLen>>
    /\ UNCHANGED cbVars

\* lines 245-251: one iteration of while True
MainTick ==
    /\ pc = "loop"
    /\ pc' = "loop"
    /\ UNCHANGED <<pending, heroBps, vehBps, nPts, number,
                   spawn_points, batch, responses, warnings, vehicle_ids,
                   actor_list, spawned_vehicle_ids, hero_vehicle, lidar, nextId,
                   created, destroyLog, idx, listening, shutdownRuns, firstLen>>
    /\ UNCHANGED cbVars

\* a call of the try body raises (a simulator call times out or is refused)
MainFail ==
    /\ pc \in FailPcs
    /\ Raise
    /\ UNCHANGED <<heroBps, vehBps, nPts, number,
                   spawn_points, batch, responses, warnings, vehicle_ids,
                   actor_list, spawned_vehicle_ids, hero_vehicle, lidar, nextId,
                   created, destroyLog, idx, listening, shutdownRuns, firstLen>>
    /\ UNCHANGED cbVars

\* KeyboardInterrupt is raised in the main thread between two of its steps:
\* in the try body it is caught by `except KeyboardInterrupt`; in the handler
\* the finally block still runs; in the finally block nothing catches it
\* (`except Exception` does not) and it leaves main
MainInterrupt ==
    /\ \/ pc \in TryPcs /\ pc' = "except" /\ UNCHANGED pending
       \/ pc = "except" /\ pc' = "fin_batch" /\ pending' = "interrupt"
       \/ pc \in FinallyPcs /\ pc' = "exited" /\ pending' = "interrupt"
    /\ UNCHANGED <<heroBps, vehBps, nPts, number, spawn_points, batch,
                   responses, warnings, vehicle_ids, actor_list,
                   spawned_vehicle_ids, hero_vehicle, lidar, nextId, created,
                   destroyLog, idx, listening, shutdownRuns, firstLen>>
    /\ UNCHANGED cbVars

\* lines 253-254: except KeyboardInterrupt
MainExcept ==
    /\ pc = "except"
    /\ pc' = "fin_batch"
    /\ UNCHANGED <<pending, heroBps, vehBps, nPts, number,
                   spawn_points, batch, responses, warnings, vehicle_ids,
                   actor_list, spawned_vehicle_ids, hero_vehicle, lidar, nextId,
                   created, destroyLog, idx, listening, shutdownRuns, firstLen>>
    /\ UNCHANGED cbVars

\* the buggy variant: the ids the spawner returned are registered when the
\* teardown starts
FinBatchLateRegister ==
    /\ pc = "fin_batch"
    /\ \E ok \in BOOLEAN :
          destroyLog' = Append(destroyLog,
              [kind |-> "batch", ids |-> spawned_vehicle_ids, ok |-> ok])
    /\ spawned_vehicle_ids' = spawned_vehicle_ids \o vehicle_ids
    /\ shutdownRuns' = shutdownRuns + 1
    /\ idx' = 1
    /\ pc' = "fin_loop"
    /\ UNCHANGED <<pending, heroBps, vehBps, nPts, number,
                   spawn_points, batch, responses, warnings, vehicle_ids,
                   actor_list, hero_vehicle, lidar, nextId,
                   created, listening, firstLen>>
    /\ UNCHANGED cbVars

\* the buggy variant: the fleet is destroyed with one request per vehicle
FinBatchPerVehicle ==
    /\ pc = "fin_batch"
    /\ \E ok \in BOOLEAN :
          destroyLog' = destroyLog \o
              [k \in 1..Len(spawned_vehicle_ids) |->
                  [kind |-> "actor", ids |-> <<spawned_vehicle_ids[k]>>,
                   ok |-> ok]]
    /\ shutdownRuns' = shutdownRuns + 1
    /\ idx' = 1
    /\ pc' = "fin_loop"
    /\ UNCHANGED <<pending, heroBps, vehBps, nPts, number,
                   spawn_points, batch, responses, warnings, vehicle_ids,
                   actor_list, spawned_vehicle_ids, hero_vehicle, lidar, nextId,
                   created, listening, firstLen>>
    /\ UNCHANGED cbVars

\* lines 256-260: one apply_batch of DestroyActor for spawned_vehicle_ids;
\* an Exception it raises is swallowed
FinBatch ==
    /\ pc = "fin_batch"
    /\ \E ok \in BOOLEAN :
          destroyLog' = Append(destroyLog,
              [kind |-> "batch", ids |-> spawned_vehicle_ids, ok |-> ok])
    /\ shutdownRuns' = shutdownRuns + 1
    /\ idx' = 1
    /\ pc' = "fin_loop"
    /\ UNCHANGED <<pending, heroBps, vehBps, nPts, number,
                   spawn_points, batch, responses, warnings, vehicle_ids,
                   actor_list, spawned_vehicle_ids, hero_vehicle, lidar, nextId,
                   created, listening, firstLen>>
    /\ UNCHANGED cbVars

\* the buggy variant: a destroy that fails ends the loop and leaves main
FinDestroyAbortOnFailure ==
    /\ pc = "fin_loop"
    /\ idx <= Len(actor_list)
    /\ \E ok \in BOOLEAN :
          /\ destroyLog' = Append(destroyLog,
                [kind |-> "actor", ids |-> <<actor_list[idx]>>, ok |-> ok])
          /\ IF ok THEN UNCHANGED <<pc, pending>>
                   ELSE pc' = "exited" /\ pending' = "error"
    /\ idx' = idx + 1
    /\ UNCHANGED <<heroBps, vehBps, nPts, number,
                   spawn_points, batch, responses, warnings, vehicle_ids,
                   actor_list, spawned_vehicle_ids, hero_vehicle, lidar, nextId,
                   created, listening, shutdownRuns, firstLen>>
    /\ UNCHANGED cbVars

\* lines 261-265: actor.destroy() for the next actor of actor_list; an
\* Exception it raises is swallowed
FinDestroy ==
    /\ pc = "fin_loop"
    /\ idx <= Len(actor_list)
    /\ \E ok \in BOOLEAN :
          destroyLog' = Append(destroyLog,
              [kind |-> "actor", ids |-> <<actor_list[idx]>>, ok |-> ok])
    /\ idx' = idx + 1
    /\ UNCHANGED <<pc, pending, heroBps, vehBps, nPts, number,
                   spawn_points, batch, responses, warnings, vehicle_ids,
                   actor_list, spawned_vehicle_ids, hero_vehicle, lidar, nextId,
                   created, listening, shutdownRuns, firstLen>>
    /\ UNCHANGED cbVars

\* line 266: the loop is over, main returns (or the pending exception leaves)
FinDone ==
    /\ pc = "fin_loop"
    /\ idx > Len(actor_list)
    /\ pc' = "exited"
    /\ UNCHANGED <<pending, heroBps, vehBps, nPts, number,
                   spawn_points, batch, responses, warnings, vehicle_ids,
                   actor_list, spawned_vehicle_ids, hero_vehicle, lidar, nextId,
                   created, destroyLog, idx, listening, shutdownRuns, firstLen>>
    /\ UNCHANGED cbVars

(***************************************************************************)
(* Spec: the whole program.                                                *)
(***************************************************************************)
Init ==
    /\ pc = "setup" /\ pending = "none"
    /\ heroBps \in BOOLEAN /\ vehBps \in BOOLEAN /\ nPts \in 0..MaxSpawnPts
    /\ number = 0
    /\ spawn_points = <<>> /\ batch = <<>> /\ responses = <<>>
    /\ warnings = 0 /\ vehicle_ids = <<>>
    /\ actor_list = <<>> /\ spawned_vehicle_ids = <<>>
    /\ hero_vehicle = 0 /\ lidar = 0 /\ nextId = 1 /\ created = {}
    /\ destroyLog = <<>> /\ idx = 1 /\ listening = FALSE
    /\ shutdownRuns = 0 /\ firstLen = 0
    /\ sensorFrame = <<>> /\ now = 0
    /\ cb = [i \in 1..MaxFrames |-> IdleCb]
    /\ rawLog = <<>> /\ sumLog = <<>>

Next ==
    \/ MainSetup
    \/ MainSpawnHero
    \/ MainAppendHero
    \/ SvBlueprints(NUM_VEHICLES)
    \/ SvBuildBatch
    \/ SvApply
    \/ SvCollect
    \/ MainExtend
    \/ MainSpawnLidar
    \/ MainAppendLidar
    \/ MainListen
    \/ MainTick
    \/ MainFail
    \/ MainInterrupt
    \/ MainExcept
    \/ FinBatch
    \/ FinDestroy
    \/ FinDone
    \/ \E f \in ScanFrames : CbStart(1, f)
    \/ CbWriteRaw(1, BufRows)
    \/ CbSummary(1)

Spec == Init /\ [][Next]_vars

(***************************************************************************)
(* SpecSpawn: spawn_vehicles_batch alone, called with any `number`, once   *)
(* the hero vehicle exists.                                                *)
(***************************************************************************)
InitSpawn ==
    /\ pc = "sv_bps" /\ pending = "none"
    /\ heroBps = TRUE /\ vehBps \in BOOLEAN /\ nPts \in 0..MaxSpawnPts
    /\ number = 0
    /\ spawn_points = <<>> /\ batch = <<>> /\ responses = <<>>
    /\ warnings = 0 /\ vehicle_ids = <<>>
    /\ actor_list = <<1>> /\ spawned_vehicle_ids = <<>>
    /\ hero_vehicle = 1 /\ lidar = 0 /\ nextId = 2 /\ created = {1}
    /\ destroyLog = <<>> /\ idx = 1 /\ listening = FALSE
    /\ shutdownRuns = 0 /\ firstLen = 0
    /\ sensorFrame = <<>> /\ now = 0
    /\ cb = [i \in 1..MaxFrames |-> IdleCb]
    /\ rawLog = <<>> /\ sumLog = <<>>

NextSpawn ==
    \/ \E n \in 0..MaxNumber : SvBlueprints(n)
    \/ SvBuildBatch
    \/ SvApply
    \/ SvCollect

SpecSpawn == InitSpawn /\ [][NextSpawn]_vars

(***************************************************************************)
(* SpecShutdown: the teardown of the finally block on the registries a run *)
(* can leave, run and then run once more.                                  *)
(***************************************************************************)
\* the registries main can hold when the finally block starts: nothing yet,
\* the hero, the hero and a fleet of n, or these and the lidar
InitShutdown ==
    /\ pc = "fin_batch" /\ pending = "none"
    /\ heroBps = TRUE /\ vehBps = TRUE /\ nPts = MaxSpawnPts
    /\ number = NUM_VEHICLES
    /\ spawn_points = <<>> /\ batch = <<>> /\ responses = <<>>
    /\ warnings = 0
    /\ \E n \in 0..MaxSpawnPts, stage \in {"none", "hero", "fleet", "lidar"} :
          /\ stage \in {"none", "hero"} => n = 0
          /\ hero_vehicle = IF stage = "none" THEN 0 ELSE 1
          /\ lidar = IF stage = "lidar" THEN n + 2 ELSE 0
          /\ vehicle_ids = [k \in 1..n |-> k + 1]
          /\ spawned_vehicle_ids = [k \in 1..n |-> k + 1]
          /\ actor_list = IF stage = "none" THEN <<>>
                          ELSE IF stage = "lidar" THEN <<1, n + 2>>
                          ELSE <<1>>
          /\ created = IF stage = "none" THEN {}
                       ELSE IF stage = "lidar" THEN 1..(n + 2)
                       ELSE 1..(n + 1)
          /\ nextId = IF stage = "none" THEN 1
                      ELSE IF stage = "lidar" THEN n + 3
                      ELSE n + 2
          /\ listening = (stage = "lidar")
    /\ destroyLog = <<>> /\ idx = 1
    /\ shutdownRuns = 0 /\ firstLen = 0
    /\ sensorFrame = <<>> /\ now = 0
    /\ cb = [i \in 1..MaxFrames |-> IdleCb]
    /\ rawLog = <<>> /\ sumLog = <<>>

\* the teardown is entered a second time, on the registries the first left
ShutdownAgain ==
    /\ pc = "exited"
    /\ shutdownRuns = 1
    /\ firstLen' = Len(destroyLog)
    /\ pc' = "fin_batch"
    /\ UNCHANGED <<pending, heroBps, vehBps, nPts, number, spawn_points, batch,
                   responses, warnings, vehicle_ids, actor_list,
                   spawned_vehicle_ids, hero_vehicle, lidar, nextId, created,
                   destroyLog, idx, listening, shutdownRuns>>
    /\ UNCHANGED cbVars

NextShutdown ==
    \/ FinBatch
    \/ FinDestroy
    \/ FinDone
    \/ ShutdownAgain

SpecShutdown == InitShutdown /\ [][NextShutdown]_vars

(***************************************************************************)
(* SpecOverlap: invocations of the callback that may overlap, the main     *)
(* thread waiting in its tick loop.                                        *)
(***************************************************************************)
NextOverlap ==
    \/ \E i \in 1..MaxFrames, f \in ScanFrames : CbStart(i, f)
    \/ \E i \in 1..MaxFrames : CbWriteRaw(i, BufRows)
    \/ \E i \in 1..MaxFrames : CbSummary(i)
    \/ ClockAdvance

(***************************************************************************)
(* SpecFrame: one invocation of the callback, run as a whole, on a frame of *)
(* up to MaxPointsAgg points.                                              *)
(***************************************************************************)
InitFrame ==
    /\ pc = "loop" /\ pending = "none"
    /\ heroBps = TRUE /\ vehBps = TRUE /\ nPts = 1 /\ number = 0
    /\ spawn_points = <<>> /\ batch = <<>> /\ responses = <<>>
    /\ warnings = 0 /\ vehicle_ids = <<>>
    /\ actor_list = <<1, 2>> /\ spawned_vehicle_ids = <<>>
    /\ hero_vehicle = 1 /\ lidar = 2 /\ nextId = 3 /\ created = {1, 2}
    /\ destroyLog = <<>> /\ idx = 1 /\ listening = TRUE
    /\ shutdownRuns = 0 /\ firstLen = 0
    /\ sensorFrame = <<>> /\ now = 0
    /\ cb = [i \in 1..MaxFrames |-> IdleCb]
    /\ rawLog = <<>> /\ sumLog = <<>>

NextFrame ==
    \/ SensorDetect(MaxPointsAgg, MaxRepeats)
    \/ semantic_lidar_data(1, sensorFrame)

SpecFrame == InitFrame /\ [][NextFrame]_vars

SpecOverlap == InitFrame /\ [][NextOverlap]_vars

(***************************************************************************)
(* SpecRun: the program from its tick loop on: invocations of the callback *)
(* that may overlap, while the main thread ticks, is interrupted or fails, *)
(* runs the teardown and returns.                                          *)
(***************************************************************************)
NextRun ==
    \/ MainTick
    \/ MainFail
    \/ MainInterrupt
    \/ MainExcept
    \/ FinBatch
    \/ FinDestroy
    \/ FinDone
    \/ \E i \in 1..MaxFrames, f \in ScanFrames : CbStart(i, f)
    \/ \E i \in 1..MaxFrames : CbWriteRaw(i, BufRows)
    \/ \E i \in 1..MaxFrames : CbSummary(i)

SpecRun == InitFrame /\ [][NextRun]_vars

\* SpecRunFair: SpecRun where no thread that can take a step waits forever:
\* an invocation that can write goes on writing, the main thread goes on
\* through its handler and its finally block
SpecRunFair ==
    /\ SpecRun
    /\ \A i \in 1..MaxFrames :
          WF_vars(CbWriteRaw(i, BufRows)) /\ WF_vars(CbSummary(i))
    /\ WF_vars(MainExcept \/ FinBatch \/ FinDestroy \/ FinDone)

(***************************************************************************)
(* What the claims speak of, stated on the frame and the logs themselves.  *)
(***************************************************************************)
Done(i) == cb[i].pc = "done"

\* the name the taxonomy gives a tag
RegistryName(tag) ==
    IF tag \in 0..22 THEN key_list[tag + 1]
    ELSE "Unknown(" \o ToString(tag) \o ")"

FrameClasses(frame) == { RegistryName(t) : t \in TagsOf(frame) }

ClassDistances(frame, name) ==
    { Distance(frame[k]) : k \in { j \in 1..Len(frame) :
                                     RegistryName(frame[j].object_tag) = name } }

\* the least distance among the points of the class
MinDistance(frame, name) ==
    CHOOSE d \in ClassDistances(frame, name) :
        \A e \in ClassDistances(frame, name) : d <= e

RawRowsOf(i) == SelectSeq(rawLog, LAMBDA r : r.frame_no = i)

SummaryRowsOf(i) == SelectSeq(sumLog, LAMBDA r : r.frame_no = i)

SummaryOf(i) == SummaryRowsOf(i)[1].detections_summary

SummaryNames(i) == { SummaryOf(i)[k].name : k \in 1..Len(SummaryOf(i)) }

\* C1: an invocation of the callback that has returned has appended exactly
\* len(frame) rows to the raw log and exactly one row to the summary log; for
\* the empty frame that row carries the empty summary.  Before it returns it
\* has appended no more than that.
C1_RowsPerInvocation ==
    \A i \in 1..MaxFrames :
        /\ Len(RawRowsOf(i)) <= Len(cb[i].frame)
        /\ Len(SummaryRowsOf(i)) <= 1
        /\ Done(i) =>
              /\ Len(RawRowsOf(i)) = Len(cb[i].frame)
              /\ Len(SummaryRowsOf(i)) = 1
              /\ cb[i].frame = <<>> => SummaryOf(i) = <<>>

\* two invocations have returned, the first on the empty frame and the second
\* on three points, and the second wrote its summary row first
C1_Witness ==
    /\ Done(1) /\ Done(2)
    /\ cb[1].frame = <<>>
    /\ Len(cb[2].frame) = 3
    /\ Len(rawLog) = 3
    /\ Len(sumLog) = 2
    /\ sumLog[1].frame_no = 2
    /\ sumLog[2].detections_summary = <<>>

\* C2: when main has exited, every actor the simulator created for this
\* process has been named in a destroy request.
C2_EveryCreatedActorDestroyed ==
    pc = "exited" => created \subseteq LogIds(destroyLog)

\* C3 (as claimed): the caller of spawn_vehicles_batch receives as many
\* outcomes as requests were submitted.
C3_CallerGetsOneOutcomePerRequest ==
    pc = "extend" => Len(vehicle_ids) = Len(batch)

\* C3 (amended): the simulator answers every request, successes plus logged
\* failures equal the requests submitted (also for none), and the caller
\* receives one actor id per success: the requests minus the failures.
C3_SuccessesPlusFailures ==
    pc = "extend" =>
        /\ Len(responses) = Len(batch)
        /\ Len(vehicle_ids) + warnings = Len(batch)
        /\ Len(vehicle_ids) =
              Cardinality({ k \in 1..Len(responses) : ~responses[k].error })
        /\ warnings =
              Cardinality({ k \in 1..Len(responses) : responses[k].error })

\* three requests, the middle one rejected: two ids returned, one warning
C3_Witness ==
    /\ pc = "extend"
    /\ Len(batch) = 3
    /\ responses[1].error = FALSE
    /\ responses[2].error = TRUE
    /\ responses[3].error = FALSE
    /\ Len(vehicle_ids) = 2
    /\ warnings = 1

\* the destroy requests of the second run of the teardown
SecondRunLog == SubSeq(destroyLog, firstLen + 1, Len(destroyLog))

\* C4: a second run of the teardown names no actor in a destroy request.
C4_SecondShutdownIsNoOp ==
    shutdownRuns = 2 => LogIds(SecondRunLog) = {}

\* an invocation has flushed some of its rows to the raw log and not yet all
MidWrite(i) ==
    /\ cb[i].pc = "raw"
    /\ 0 < Len(cb[i].raw_points)
    /\ Len(cb[i].raw_points) < Len(cb[i].frame)

\* C5: at most one invocation is writing the raw log at a time, and the rows
\* of one frame are contiguous in it.
C5_RawWritesSerialized ==
    /\ Cardinality({ i \in 1..MaxFrames : MidWrite(i) }) <= 1
    /\ \A a, b, c \in 1..Len(rawLog) :
          (a < b /\ b < c /\ rawLog[a].frame_no = rawLog[c].frame_no)
              => rawLog[b].frame_no = rawLog[a].frame_no

\* the ids of the responses without error
AcceptedIds(resp) ==
    { resp[k].actor_id : k \in { j \in 1..Len(resp) : ~resp[j].error } }

AfterExtendPcs == {"spawn_lidar", "append_lidar", "listen", "loop"}

\* C9: with rejected requests in the batch, spawn_vehicles_batch returns the
\* id of every accepted response and of no rejected one, each once, and main
\* adds exactly those ids to spawned_vehicle_ids and carries on.
C9_RejectedRequestSkipped ==
    /\ pc = "extend" =>
          /\ { vehicle_ids[k] : k \in 1..Len(vehicle_ids) } = AcceptedIds(responses)
          /\ Len(vehicle_ids) = Cardinality(AcceptedIds(responses))
          /\ \A k \in 1..Len(responses) : responses[k].error =>
                \A j \in 1..Len(vehicle_ids) : vehicle_ids[j] # responses[k].actor_id
          /\ pending = "none"
    /\ pc \in AfterExtendPcs =>
          /\ spawned_vehicle_ids = vehicle_ids
          /\ { spawned_vehicle_ids[k] : k \in 1..Len(spawned_vehicle_ids) }
                = created \ {hero_vehicle, lidar}
          /\ \A j, k \in 1..Len(spawned_vehicle_ids) :
                j # k => spawned_vehicle_ids[j] # spawned_vehicle_ids[k]

\* one of three requests was rejected and main runs its tick loop with the
\* two accepted vehicles registered
C9_Witness ==
    /\ pc = "loop"
    /\ warnings = 1
    /\ spawned_vehicle_ids = <<2, 3>>
    /\ created = {1, 2, 3, 4}

\* C10: with vehicle blueprints present and more vehicles requested than the
\* map has spawn points (at least one), the batch holds one request per spawn
\* point, min(requested, available), gets as many responses, and nothing is
\* raised.
C10_BatchCappedAtSpawnPoints ==
    (vehBps /\ nPts >= 1 /\ number > nPts) =>
        /\ pending = "none"
        /\ pc # "fin_batch"
        /\ pc \in {"sv_apply", "sv_collect", "extend"} =>
              Len(batch) = Min2(number, nPts)
        /\ pc \in {"sv_collect", "extend"} => Len(responses) = Min2(number, nPts)

\* 5 vehicles requested on a map of 3 spawn points: 3 outcomes
C10_Witness ==
    /\ pc = "extend"
    /\ number = 5
    /\ nPts = 3
    /\ Len(batch) = 3
    /\ Len(responses) = 3
    /\ pending = "none"

\* C6: every entry of a frame's summary carries the minimum distance over all
\* points of its class (to 2 decimals), and the entries are the 8 classes
\* with the smallest minima, or all classes when fewer than 8 are present.
C6_SummaryIsNearestPerClass ==
    \A i \in 1..MaxFrames : Done(i) =>
        LET f == cb[i].frame
            s == SummaryOf(i)
            listed == { t \in TagsOf(f) :
                          \E k \in 1..Len(s) : s[k].name = RegistryName(t) }
        IN  /\ \A k \in 1..Len(s) :
                  \E j \in 1..Len(f) :
                     /\ RegistryName(f[j].object_tag) = s[k].name
                     /\ s[k].d = Fmt2(Distance(f[j]))
                     /\ \A h \in 1..Len(f) :
                           (f[h].object_tag = f[j].object_tag
                              \/ f[h].object_tag \notin listed)
                                 => Distance(f[j]) <= Distance(f[h])
            /\ \A k, l \in 1..Len(s) : k # l => s[k].name # s[l].name
            /\ Len(s) = Min2(TopK, Cardinality(TagsOf(f)))

\* a frame of 9 classes whose first class is the farthest and is cut, while a
\* class seen twice is listed with the smaller of its two distances
C6_Witness ==
    /\ Done(1)
    /\ Cardinality(FrameClasses(cb[1].frame)) = TopK + 1
    /\ Len(SummaryOf(1)) = TopK
    /\ "Roads" \notin SummaryNames(1)
    /\ \E k \in 1..TopK :
          /\ Cardinality(ClassDistances(cb[1].frame, SummaryOf(1)[k].name)) = 2
          /\ SummaryOf(1)[k].d = 141

\* C7: the distances of a frame's summary are non-decreasing in list order
\* and the summary has min(8, number of distinct classes of the frame) entries.
C7_SummaryAscendingAndBounded ==
    \A i \in 1..MaxFrames : Done(i) =>
        LET s == SummaryOf(i)
        IN  /\ \A k \in 1..(Len(s) - 1) : s[k].d <= s[k + 1].d
            /\ Len(s) = Min2(TopK, Cardinality(FrameClasses(cb[i].frame)))

\* a frame of 9 classes seen far-first: 8 entries, the first nearer than the last
C7_Witness ==
    /\ Done(1)
    /\ Cardinality(FrameClasses(cb[1].frame)) = TopK + 1
    /\ Distance(cb[1].frame[1]) > Distance(cb[1].frame[2])
    /\ Len(SummaryOf(1)) = TopK
    /\ SummaryOf(1)[1].d < SummaryOf(1)[TopK].d

\* C8: a point whose tag is not registered is classified "Unknown(<tag>)":
\* the callback completes, the point has its raw row, and its class takes
\* part in the per-class minimum and in the ranking of the summary.
C8_UnknownTagKept ==
    \A i \in 1..MaxFrames : Done(i) =>
        LET f == cb[i].frame
            s == SummaryOf(i)
            raw == RawRowsOf(i)
        IN  \A k \in 1..Len(f) : f[k].object_tag \notin 0..22 =>
              LET nm == "Unknown(" \o ToString(f[k].object_tag) \o ")"
                  same == { h \in 1..Len(f) : f[h].object_tag = f[k].object_tag }
              IN  /\ Len(raw) = Len(f)
                  /\ raw[k].object_tag = f[k].object_tag
                  /\ raw[k].x = f[k].x
                  /\ raw[k].y = f[k].y
                  /\ raw[k].z = f[k].z
                  /\ \/ \E e \in 1..Len(s) :
                           /\ s[e].name = nm
                           /\ \E j \in same :
                                 /\ s[e].d = Fmt2(Distance(f[j]))
                                 /\ \A h \in same : Distance(f[j]) <= Distance(f[h])
                     \/ /\ Len(s) = TopK
                        /\ \A e \in 1..Len(s), h \in same :
                              s[e].d <= Fmt2(Distance(f[h]))

\* tag 23 measured twice and tag 99 once: both are named in the summary, the
\* first with the nearer of its two distances
C8_Witness ==
    /\ Done(1)
    /\ \E k, l \in 1..Len(cb[1].frame) :
          /\ cb[1].frame[k].object_tag = 23
          /\ cb[1].frame[l].object_tag = 23
          /\ Distance(cb[1].frame[k]) > Distance(cb[1].frame[l])
    /\ \E e \in 1..Len(SummaryOf(1)) :
          SummaryOf(1)[e].name = "Unknown(23)" /\ SummaryOf(1)[e].d = 141
    /\ \E e \in 1..Len(SummaryOf(1)) : SummaryOf(1)[e].name = "Unknown(99)"
    /\ Len(RawRowsOf(1)) = Len(cb[1].frame)

\* the spawn points the requests of the batch are given
BatchLocations == { batch[k].transform : k \in 1..Len(batch) }

\* C11: no two requests of the fleet batch are given the same spawn point, and
\* none is given the spawn point the hero vehicle was created at.
C11_UniqueUnusedLocations ==
    /\ \A j, k \in 1..Len(batch) :
          j # k => batch[j].transform # batch[k].transform
    /\ hero_vehicle # 0 => HeroSpawnPoint \notin BatchLocations

\* the destroy requests of one complete run of the teardown: the batch and
\* one request per tracked actor
TeardownLen == 1 + Len(actor_list)

\* C12: whatever destroy requests fail, a run of the teardown issues the
\* batch request and then one request for every actor of actor_list, in
\* order: a failed batch is followed by the attempts on the tracked actors, a
\* failed attempt by the attempts on the later actors; no failure leaves the
\* teardown as an exception.
C12_FailedDestroyDoesNotStopTeardown ==
    /\ pending = "none"
    /\ pc = "fin_loop" =>
          Len(destroyLog) = (shutdownRuns - 1) * TeardownLen + idx
    /\ pc = "exited" => Len(destroyLog) = shutdownRuns * TeardownLen
    /\ \A r \in 1..shutdownRuns :
          LET base == (r - 1) * TeardownLen
          IN  /\ destroyLog[base + 1].kind = "batch"
              /\ \A k \in 1..Len(actor_list) :
                    base + 1 + k <= Len(destroyLog) =>
                       /\ destroyLog[base + 1 + k].kind = "actor"
                       /\ destroyLog[base + 1 + k].ids = <<actor_list[k]>>

\* the batch destroy and the destroy of the hero both failed, and the lidar
\* was attempted all the same before main returned
C12_Witness ==
    /\ pc = "exited"
    /\ shutdownRuns = 1
    /\ Len(spawned_vehicle_ids) > 0
    /\ actor_list = <<hero_vehicle, lidar>>
    /\ Len(destroyLog) = 3
    /\ ~destroyLog[1].ok
    /\ ~destroyLog[2].ok
    /\ destroyLog[3].ids = <<lidar>>
    /\ pending = "none"

\* the map or the blueprint library lacks what the setup needs
SetupFailure == ~vehBps \/ nPts = 0

\* main is at the statement that finds the lack: the hero blueprint or the
\* first spawn point (lines 211-218), or the two checks of
\* spawn_vehicles_batch (lines 161 and 166)
SetupFailureFound ==
    \/ pc = "setup" /\ ((~heroBps /\ ~vehBps) \/ nPts = 0)
    \/ pc = "sv_bps" /\ ~vehBps
    \/ pc = "sv_pts" /\ nPts = 0

\* C13: with no vehicle blueprints or no spawn points, the sensor is never
\* created, its callback never registered and the tick loop never entered;
\* the statement that finds the lack raises, the exception passes through the
\* finally block and is still pending when main is left.
C13_SetupFailureIsFatal ==
    /\ [](SetupFailure =>
            /\ ~listening
            /\ lidar = 0
            /\ pc \notin {"spawn_lidar", "append_lidar", "listen", "loop"})
    /\ [][/\ (SetupFailureFound /\ pc' # "except") =>
                (pc' = "fin_batch" /\ pending' = "error")
          /\ pending = "error" => pending' # "none"]_vars

\* the hero vehicle exists, spawn_vehicles_batch found no blueprint for the
\* filter, the teardown destroyed the hero and main was left with the error
C13_Witness ==
    /\ pc = "exited"
    /\ pending = "error"
    /\ heroBps /\ ~vehBps /\ nPts > 0
    /\ actor_list = <<hero_vehicle>>
    /\ hero_vehicle # 0
    /\ Len(destroyLog) = 2
    /\ destroyLog[2].ids = <<hero_vehicle>>
    /\ ~listening
    /\ cb[1].pc = "idle"

\* log is kept as it is at the front of log2
IsPrefix(log, log2) ==
    /\ Len(log) <= Len(log2)
    /\ \A k \in 1..Len(log) : log2[k] = log[k]

\* C14: a step of the program, be it of a later invocation, of the teardown
\* or the end of the process, leaves every row already in a log where it is
\* and as it is; an invocation that has returned has all its raw rows and its
\* summary row in the logs, so only an invocation in flight can lack rows.
C14_AppendOnlyCommitPerCall ==
    /\ [][IsPrefix(rawLog, rawLog') /\ IsPrefix(sumLog, sumLog')]_vars
    /\ [](\A i \in 1..MaxFrames : Done(i) =>
            /\ RawRowsOf(i) = RawPoints(i, cb[i].timestamp, cb[i].frame)
            /\ SummaryRowsOf(i) =
                  SummaryRows(i, cb[i].timestamp,
                              DetectionsSummary(Nearest(cb[i].frame))))

\* the process has ended while the second invocation had written part of its
\* rows: the rows of the first, which had returned, are all in the logs
C14_Witness ==
    /\ pc = "exited"
    /\ Done(1)
    /\ Len(cb[1].frame) = 3
    /\ MidWrite(2)
    /\ Len(RawRowsOf(1)) = 3
    /\ Len(RawRowsOf(2)) > 0
    /\ Len(SummaryRowsOf(1)) = 1
    /\ Len(SummaryRowsOf(2)) = 0

\* main is in its finally block or has left it
ShutdownPcs == FinallyPcs \cup {"exited"}

\* C15: the finally block is entered from the try body or its handler only,
\* never again once its loop runs or main has returned; main returns through
\* it only and stays returned; and from its first statement on no step
\* changes actor_list or spawned_vehicle_ids.
C15_ShutdownOnceRegistriesFrozen ==
    /\ [](shutdownRuns <= 1)
    /\ [][/\ pc \in ShutdownPcs =>
                /\ pc' \in ShutdownPcs
                /\ actor_list' = actor_list
                /\ spawned_vehicle_ids' = spawned_vehicle_ids
          /\ (pc' = "fin_batch" /\ pc # "fin_batch") =>
                pc \in TryPcs \cup {"except"}
          /\ pc \in {"fin_loop", "exited"} => pc' # "fin_batch"
          /\ (pc' = "exited" /\ pc # "exited") => pc \in FinallyPcs
          /\ pc = "exited" => pc' = "exited"]_vars

\* the run was interrupted in its tick loop with two fleet vehicles, the hero
\* and the lidar registered; the teardown ran once on exactly these
C15_Witness ==
    /\ pc = "exited"
    /\ pending = "none"
    /\ shutdownRuns = 1
    /\ listening
    /\ Len(spawned_vehicle_ids) = 2
    /\ actor_list = <<hero_vehicle, lidar>>
    /\ destroyLog[1].ids = spawned_vehicle_ids
    /\ Len(destroyLog) = 3

\* C16: the first destroy request of the run is the one batch naming all of
\* spawned_vehicle_ids; every request after it names a single actor, the
\* actors of actor_list in their order; and when the loop of the finally
\* block has ended every actor of actor_list has had its request.
C16_BatchDestroyThenEachActor ==
    /\ destroyLog # <<>> =>
          /\ destroyLog[1].kind = "batch"
          /\ destroyLog[1].ids = spawned_vehicle_ids
    /\ \A k \in 2..Len(destroyLog) :
          /\ destroyLog[k].kind = "actor"
          /\ k - 1 <= Len(actor_list)
          /\ destroyLog[k].ids = <<actor_list[k - 1]>>
    /\ pc = "fin_batch" => destroyLog = <<>>
    /\ pc = "fin_loop" => Len(destroyLog) = idx
    /\ (pc = "exited" /\ shutdownRuns = 1 /\ idx > Len(actor_list)) =>
          Len(destroyLog) = 1 + Len(actor_list)

\* three fleet vehicles went in one batch request, then the hero and the
\* lidar had a request each
C16_Witness ==
    /\ pc = "exited"
    /\ spawned_vehicle_ids = <<2, 3, 4>>
    /\ Len(destroyLog) = 3
    /\ destroyLog[1].kind = "batch"
    /\ destroyLog[1].ids = <<2, 3, 4>>
    /\ destroyLog[2].ids = <<1>>
    /\ destroyLog[3].ids = <<5>>
    /\ hero_vehicle = 1 /\ lidar = 5

\* an invocation has started and has not returned
InFlight(i) == cb[i].pc \in {"raw", "summary"}

\* C17: every invocation of the callback that has started goes on to return
\* with its raw rows and its summary row written; and the main thread leaves
\* its try body (for the handler or the finally block) only when no
\* invocation is in flight.
C17_FrameRunsToCompletion ==
    /\ \A i \in 1..MaxFrames :
          InFlight(i) ~> (Done(i) /\ Len(SummaryRowsOf(i)) = 1)
    /\ [][(pc \in TryPcs /\ pc' \notin TryPcs) =>
             \A i \in 1..MaxFrames : ~InFlight(i)]_vars

\* the class called name has a point in frame before any point of the class
\* called other
SeenBefore(frame, name, other) ==
    \E j \in 1..Len(frame) :
        /\ RegistryName(frame[j].object_tag) = name
        /\ \A h \in 1..j : RegistryName(frame[h].object_tag) # other

\* C18: two neighbouring entries of a summary with the same distance are in
\* the order in which their classes first appear in the frame, whichever
\* point of a class gave it its minimum.  (Entries of equal distance are
\* neighbours, the list being ascending; the distances of the model differ
\* to two decimals when they differ at all.)
C18_TiesInFirstSeenOrder ==
    \A i \in 1..MaxFrames : Done(i) =>
        LET s == SummaryOf(i)
        IN  \A k \in 1..(Len(s) - 1) :
               s[k].d = s[k + 1].d =>
                  SeenBefore(cb[i].frame, s[k].name, s[k + 1].name)

\* Roads is seen first and far, Unknown(23) second and near, and a last point
\* of Roads brings its minimum down to that of Unknown(23): Roads is listed
\* first
C18_Witness ==
    /\ Done(1)
    /\ Len(cb[1].frame) = 3
    /\ cb[1].frame[1].object_tag = 7
    /\ cb[1].frame[2].object_tag = 23
    /\ cb[1].frame[3].object_tag = 7
    /\ Distance(cb[1].frame[1]) > Distance(cb[1].frame[2])
    /\ Distance(cb[1].frame[3]) = Distance(cb[1].frame[2])
    /\ SummaryOf(1) = << [name |-> "Roads", d |-> 141],
                         [name |-> "Unknown(23)", d |-> 141] >>

\* C19: every row an invocation has written, to the raw log or the summary
\* log, carries the timestamp that invocation read when it started, however
\* far the clock has moved since; and an invocation's summary row is in the
\* summary log only when all its raw rows are in the raw log.
C19_OneTimestampRawBeforeSummary ==
    \A i \in 1..MaxFrames :
        /\ \A k \in 1..Len(rawLog) :
              rawLog[k].frame_no = i => rawLog[k].timestamp = cb[i].timestamp
        /\ \A k \in 1..Len(sumLog) :
              sumLog[k].frame_no = i => sumLog[k].timestamp = cb[i].timestamp
        /\ Len(SummaryRowsOf(i)) > 0 =>
              /\ Len(RawRowsOf(i)) = Len(cb[i].frame)
              /\ cb[i].raw_points = <<>>

\* the first invocation read the clock at 0 and wrote its three raw rows and
\* its summary row after the second, which read it at 1, had written its own
C19_Witness ==
    /\ Done(1) /\ Done(2)
    /\ cb[1].timestamp = 0
    /\ cb[2].timestamp = 1
    /\ Len(cb[1].frame) = 3
    /\ Len(cb[2].frame) = 1
    /\ rawLog[1].frame_no = 2
    /\ rawLog[4].timestamp = 0
    /\ sumLog[1].frame_no = 2
    /\ sumLog[2].timestamp = 0

====
